---------------------------- MODULE Spec2Model ----------------------------
(***************************************************************************)
(* Offline operation queue of the CRM front-end.                           *)
(*                                                                         *)
(*   lib/offline-queue (src/unnamed/part_004): the IndexedDB store with    *)
(*     the operation log ('offline-queue') and the entity cache            *)
(*     ('leads-cache').                                                    *)
(*   hooks/use-offline-queue.tsx: the useOfflineQueue hook.  Every         *)
(*     component that calls the hook owns one instance of its React state  *)
(*     (queueCount, isSyncing); the store is shared by all of them.        *)
(*                                                                         *)
(* An async function is cut where it awaits the remote service or the end  *)
(* of a store write: one action per stretch of code in between.  IndexedDB *)
(* runs the transactions on one store in the order of their creation, so a *)
(* store request takes effect in the step that creates its transaction:    *)
(* getQueuedOperations reads the log in the step that calls syncQueue, and *)
(* removeFromQueue deletes in the step in which the remote call returned.  *)
(* updateQueueCount reads the count and sets the state in one step.        *)
(***************************************************************************)
EXTENDS Integers, Sequences, FiniteSets, TLC

\* ----------------------------------------------------------------- bounds
\* operations enqueued in one behaviour, the one left by an earlier session
\* included
MaxOps == 2
\* readings of Date.now() in this session are 1..MaxClock
MaxClock == 2
\* store writes that fail in one behaviour
MaxFaults == 2
\* page loads in one behaviour
MaxSessions == 3

\* ------------------------------------------------------------- components
\* The components that call useOfflineQueue().
Instances == {"SyncIndicator", "LeadsTable", "LeadFormDialog"}

\* crypto.randomUUID() values, in the key order of the object store
OpIds == 1..MaxOps

\* field values of a lead
Names == {"Acme"}
NoName == "-"

\* lead identifiers: a row fetched from the server, the temp_<uuid>
\* identifiers of queueInsert, and no identifier
ServerLead == <<"lead", 1>>
TempId(n) == <<"temp", n>>
NoId == <<"none", 0>>

VARIABLES
  log,          \* object store 'offline-queue': set of QueuedOperation
  cache,        \* object store 'leads-cache': set of leads, keyed by id
  isOnline,     \* useOnlineStatus()
  now,          \* the last reading of Date.now()
  queueCount,   \* useState(0), per hook instance
  isSyncing,    \* useState(false), per hook instance
  sync,         \* per hook instance: its syncQueue call in flight
  enq,          \* per hook instance: its queueInsert/Update/Delete call in flight
  enqOrder,     \* history: ids in the order of the addToQueue calls
  acked,        \* history: ids whose remote call returned without error
  call,         \* history: the last call of a cache function of the library
  faults,       \* history: the store writes that failed, in order
  idb,          \* the module's db handle and the initDB calls in flight
  session,      \* history: the number of the page load, and the ids whose
                \* remote call was pending when a page was closed
  tx            \* the transaction of cacheLeads on 'leads-cache' in progress,
                \* and what the last getCachedLeads returned

vars == <<log, cache, isOnline, now, queueCount, isSyncing, sync, enq,
          enqOrder, acked, call, faults, idb, session, tx>>

\* ---------------------------------------------------------------- helpers
Range(s) == {s[k] : k \in 1..Len(s)}

Ids(ops) == {op.id : op \in ops}

Min(S) == CHOOSE x \in S : \A y \in S : x <= y

\* a lead as the components hold it
Lead(id, name) == [id |-> id, name |-> name]

\* the form data of a new lead: it has no id
FormData(name) == [name |-> name]

\* const { id, ...rest } = data: the fields of data other than id
Rest(data) == [f \in DOMAIN data \ {"id"} |-> data[f]]

\* QueuedOperation
QueuedOp(id, type, table, data, timestamp) ==
  [id |-> id, type |-> type, table |-> table, data |-> data,
   timestamp |-> timestamp]

\* ------------------------------------------------------ lib/offline-queue
\* IDBObjectStore.getAll(): every record, in ascending key order (keyPath 'id')
RECURSIVE GetAll(_)
GetAll(store) ==
  IF store = {} THEN <<>>
  ELSE LET first == CHOOSE op \in store : op.id = Min(Ids(store))
       IN <<first>> \o GetAll(store \ {first})

\* one insertion of a stable sort with (a, b) => a.timestamp - b.timestamp:
\* op goes in front of the first element with a greater timestamp
RECURSIVE InsertByTimestamp(_, _)
InsertByTimestamp(op, s) ==
  IF s = <<>> THEN <<op>>
  ELSE IF op.timestamp < Head(s).timestamp THEN <<op>> \o s
       ELSE <<Head(s)>> \o InsertByTimestamp(op, Tail(s))

\* operations.sort((a, b) => a.timestamp - b.timestamp); the sort is stable
RECURSIVE SortByTimestamp(_)
SortByTimestamp(s) ==
  IF s = <<>> THEN <<>>
  ELSE InsertByTimestamp(s[Len(s)], SortByTimestamp(SubSeq(s, 1, Len(s) - 1)))

\* mutant: the first record only (store.get in place of store.getAll)
Mut_getQueuedOperations(store) ==
  IF store = {} THEN <<>> ELSE <<GetAll(store)[1]>>

getQueuedOperations(store) == SortByTimestamp(GetAll(store))

\* store.count()
getQueueCount(store) == Cardinality(store)

\* mutant: an update or delete of a lead that a queued insert created is
\* folded into that insert instead of being stored as a record of its own
Mut_addToQueue_Merge(store, id, type, table, data, timestamp) ==
  IF type # "insert" /\ \E op \in store : op.type = "insert" /\ data.id = TempId(op.id)
  THEN {op \in store : ~(op.type = "insert" /\ data.id = TempId(op.id))} \cup
       (IF type = "update"
        THEN {QueuedOp(op.id, "insert", table, Rest(data), op.timestamp) :
                op \in {o \in store : o.type = "insert" /\ data.id = TempId(o.id)}}
        ELSE {})
  ELSE store \cup {QueuedOp(id, type, table, data, timestamp)}

\* mutant: every record is stored under the same key, by put
Mut_addToQueue(store, id, type, table, data, timestamp) ==
  {op \in store : op.id # 1} \cup {QueuedOp(1, type, table, data, timestamp)}

\* store.add(queuedOp) with a fresh id and timestamp Date.now()
addToQueue(store, id, type, table, data, timestamp) ==
  store \cup {QueuedOp(id, type, table, data, timestamp)}

\* mutant: the delete is lost
Mut_removeFromQueue(store, id) == store

\* store.delete(id) on the log
removeFromQueue(store, id) == {op \in store : op.id # id}

\* mutant: put merges the new record into the old one field by field
Mut_updateCachedLead(c, lead) ==
  {l \in c : l.id # lead.id} \cup
  {[f \in DOMAIN old \cup DOMAIN lead |->
      IF f \in DOMAIN lead THEN lead[f] ELSE old[f]] :
        old \in {l \in c : l.id = lead.id}} \cup
  (IF \E l \in c : l.id = lead.id THEN {} ELSE {lead})

\* store.put(lead): insert or overwrite by key
updateCachedLead(c, lead) == {l \in c : l.id # lead.id} \cup {lead}

\* mutant: the delete on the cache is lost
Mut_deleteCachedLead(c, id) == c

\* store.delete(id) on the cache
deleteCachedLead(c, id) == {l \in c : l.id # id}

\* The key order of the cache store (keyPath 'id', strings): the uuid of a
\* server row begins with a hexadecimal digit and sorts before 'temp_...'.
KeyRank(id) == IF id[1] = "lead" THEN id[2] ELSE MaxOps + 1 + id[2]

\* getCachedLeads: store.getAll() on the cache, every record in key order
RECURSIVE getCachedLeads(_)
getCachedLeads(c) ==
  IF c = {} THEN <<>>
  ELSE LET first == CHOOSE l \in c : \A m \in c : KeyRank(l.id) <= KeyRank(m.id)
       IN <<first>> \o getCachedLeads(c \ {first})

\* leads.forEach(lead => store.add(lead)) on store c: add fails on a key that
\* is in the store already, and the failure aborts the transaction
RECURSIVE AddAll(_, _)
AddAll(c, leads) ==
  IF leads = <<>> THEN [ok |-> TRUE, store |-> c]
  ELSE IF \E l \in c : l.id = Head(leads).id
       THEN [ok |-> FALSE, store |-> c]
       ELSE AddAll(c \cup {Head(leads)}, Tail(leads))

\* mutant: the cache is not cleared, the leads are put on top of it
Mut_cacheLeads(c, leads) ==
  {l \in c : \A k \in 1..Len(leads) : leads[k].id # l.id} \cup Range(leads)

\* cacheLeads: store.clear() and the adds in one transaction; an aborted
\* transaction leaves the store as it was
cacheLeads(c, leads) ==
  LET filled == AddAll({}, leads)
  IN IF filled.ok THEN filled.store ELSE c

\* ------------------------------------------------------- useOfflineQueue
\* The state of one syncQueue call: the locals operations, successCount and
\* failCount, and the loop position idx (operations[idx] is at the remote
\* service when pc = "remote"; the loop is over when pc = "count").
\* History of the pass: sent, the ids handed to the remote service, in order;
\* outcome, how each operation of the loop ended; queued, the ids in the log
\* when the pass began; during, the ids enqueued while it was in flight;
\* alone, no other pass was in flight at any time of this one; afterFail,
\* another pass has ended with failed operations while this one was in flight
\* and syncQueue has not been called since; cancel, the pass has been asked
\* to stop; lostAt, the loop positions at which the signal went offline.
\* req is the call that is at the remote service when pc = "remote".
NoReq == [method |-> "none"]

NoSync == [pc |-> "idle", operations |-> <<>>, idx |-> 0, successCount |-> 0,
           failCount |-> 0, sent |-> <<>>, outcome |-> <<>>, queued |-> {},
           during |-> {}, alone |-> TRUE, afterFail |-> FALSE, cancel |-> FALSE,
           lostAt |-> {}, req |-> NoReq]

\* let db: IDBDatabase | null = null, no connection opened, no initDB call
\* made.  db and the handles are connection numbers, 0 for null; a caller is
\* at "idle", at "opening" (its open request conn is pending) or at "done"
\* (its promise resolved with got).
NoDb == [db |-> 0, opened |-> 0,
         callers |-> [i \in Instances |-> [pc |-> "idle", conn |-> 0, got |-> 0]]]

\* the first page load of a behaviour, its mount effects done: n, the number
\* of the page load; lost, the operations whose remote call was pending when
\* an earlier page was closed; counted, the hook instances whose mount effect
\* has set queueCount
FirstSession == [n |-> 1, lost |-> {}, counted |-> Instances]

\* no cacheLeads transaction is in progress and none has been
NoTx == [pc |-> "none", rows |-> <<>>, start |-> {}, todo |-> <<>>,
         result |-> "none", read |-> [seen |-> <<>>, committed |-> {}]]

\* no cache function of the library has been called on its own
NoCall == [fn |-> "none"]

\* the state of one queueInsert / queueUpdate / queueDelete call
NoEnq == [pc |-> "idle", type |-> "insert", lead |-> Lead(NoId, NoName),
          id |-> 0]

\* The page has loaded.  The stores hold what an earlier session left: no
\* operation, or one (stamped 0, before every reading of this session's
\* clock).  Every hook instance has run its mount effect,
\* initDB().then(() => updateQueueCount()); the [isOnline] effect of the mount
\* ran before it with queueCount = 0 and called nothing.
Init ==
  /\ \E k \in {0, 1} :
       /\ log = {QueuedOp(id, "update", "leads", Lead(ServerLead, "Acme"), 0) :
                   id \in 1..k}
       /\ enqOrder = [j \in 1..k |-> j]
       /\ queueCount = [i \in Instances |-> k]
  /\ cache = {}
  /\ isOnline \in BOOLEAN
  /\ now = 1
  /\ isSyncing = [i \in Instances |-> FALSE]
  /\ sync = [i \in Instances |-> NoSync]
  /\ enq = [i \in Instances |-> NoEnq]
  /\ acked = {}
  /\ call = NoCall
  /\ faults = <<>>
  /\ idb = NoDb
  /\ session = FirstSession
  /\ tx = NoTx

\* updateQueueCount: setQueueCount(await getQueueCount())
updateQueueCount(i) == [queueCount EXCEPT ![i] = getQueueCount(log)]

\* ------------------------------------------------------------- syncQueue
\* mutant: the table is not checked
Mut_Supported(op) == TRUE

\* processOperation line 89: an operation on another table throws before any
\* remote call
Supported(op) == op.table = "leads"

\* mutant: the update sends the payload with its id
Mut_processOperation(op) ==
  CASE op.type = "insert" -> [method |-> "insert", values |-> Rest(op.data)]
    [] op.type = "update" -> [method |-> "update", values |-> op.data,
                              eq |-> op.data.id]
    [] op.type = "delete" -> [method |-> "delete", eq |-> op.data.id]

\* processOperation behind the table check: the call made on
\* supabase.from('leads') for the type of the operation
processOperation(op) ==
  CASE op.type = "insert" -> [method |-> "insert", values |-> Rest(op.data)]
    [] op.type = "update" -> [method |-> "update", values |-> Rest(op.data),
                              eq |-> op.data.id]
    [] op.type = "delete" -> [method |-> "delete", eq |-> op.data.id]

\* The for loop after position s.idx, run to its next await: an operation
\* that throws at once is counted as failed; the first supported one is
\* handed to the remote service; behind the last one the loop is over.
RECURSIVE Advance(_)
Advance(s) ==
  IF s.idx >= Len(s.operations)
  THEN [s EXCEPT !.pc = "count", !.req = NoReq]
  ELSE LET op == s.operations[s.idx + 1]
       IN IF Supported(op)
          THEN [s EXCEPT !.pc = "remote", !.idx = s.idx + 1,
                         !.sent = Append(s.sent, op.id),
                         !.req = processOperation(op)]
          ELSE Advance([s EXCEPT !.idx = s.idx + 1,
                                 !.failCount = s.failCount + 1,
                                 !.outcome = Append(s.outcome, "unsupported")])

\* syncQueue line 48: if (isSyncing) return, on the instance's own state
Guarded(i) == isSyncing[i]

\* syncQueue is called on every instance in callers (the effects of one
\* render run together): the guard, setIsSyncing(true), getQueuedOperations,
\* and the loop up to the first remote call
syncQueue(callers) ==
  LET starters == {i \in callers : ~Guarded(i)}
      busy     == {j \in Instances : isSyncing[j]}
  IN /\ isSyncing' = [i \in Instances |-> isSyncing[i] \/ i \in starters]
     /\ sync' = [i \in Instances |->
          IF i \in starters
          THEN Advance([NoSync EXCEPT !.operations = getQueuedOperations(log),
                                      !.queued = Ids(log),
                                      !.alone = (busy \cup starters = {i})])
          ELSE IF isSyncing[i]
               THEN [sync[i] EXCEPT !.alone = @ /\ starters = {},
                                    !.afterFail = FALSE]
               ELSE sync[i]]

\* mutant: on success the entities under a temporary id are taken out of
\* the cache
Mut_SyncRemoteOk(i) ==
  /\ sync[i].pc = "remote"
  /\ LET op == sync[i].operations[sync[i].idx]
     IN /\ log' = removeFromQueue(log, op.id)
        /\ acked' = acked \cup {op.id}
        /\ sync' = [sync EXCEPT ![i] =
             Advance([sync[i] EXCEPT !.successCount = @ + 1,
                                     !.outcome = Append(@, "ok")])]
  /\ cache' = {l \in cache : l.id[1] # "temp"}
  /\ UNCHANGED <<call, faults, isOnline, now, queueCount, isSyncing, enq, enqOrder,
                 idb, session, tx>>

\* the remote call returns without error: removeFromQueue(op.id),
\* successCount++, next operation
SyncRemoteOk(i) ==
  /\ sync[i].pc = "remote"
  /\ LET op == sync[i].operations[sync[i].idx]
     IN /\ log' = removeFromQueue(log, op.id)
        /\ acked' = acked \cup {op.id}
        /\ sync' = [sync EXCEPT ![i] =
             Advance([sync[i] EXCEPT !.successCount = @ + 1,
                                     !.outcome = Append(@, "ok")])]
  /\ UNCHANGED <<call, faults, cache, isOnline, now, queueCount, isSyncing, enq, enqOrder,
                 idb, session, tx>>

\* mutant: the operation is removed from the log although its call failed
Mut_SyncRemoteError_Remove(i) ==
  /\ sync[i].pc = "remote"
  /\ log' = removeFromQueue(log, sync[i].operations[sync[i].idx].id)
  /\ sync' = [sync EXCEPT ![i] =
       Advance([sync[i] EXCEPT !.failCount = @ + 1,
                               !.outcome = Append(@, "error")])]
  /\ UNCHANGED <<call, faults, cache, isOnline, now, queueCount, isSyncing, enq, enqOrder,
                 acked, idb, session, tx>>

\* mutant: the first failure ends the loop
Mut_SyncRemoteError_Abort(i) ==
  /\ sync[i].pc = "remote"
  /\ sync' = [sync EXCEPT ![i].failCount = @ + 1,
                          ![i].outcome = Append(@, "error"),
                          ![i].pc = "count",
                          ![i].req = NoReq]
  /\ UNCHANGED <<call, faults, log, cache, isOnline, now, queueCount, isSyncing, enq,
                 enqOrder, acked, idb, session, tx>>

\* the remote call returns an error: catch, failCount++, next operation
SyncRemoteError(i) ==
  /\ sync[i].pc = "remote"
  /\ sync' = [sync EXCEPT ![i] =
       Advance([sync[i] EXCEPT !.failCount = @ + 1,
                               !.outcome = Append(@, "error")])]
  /\ UNCHANGED <<call, faults, log, cache, isOnline, now, queueCount, isSyncing, enq,
                 enqOrder, acked, idb, session, tx>>

\* mutant: the log is cleared when the pass is over
Mut_SyncFinish(i) ==
  /\ sync[i].pc = "count"
  /\ log' = {}
  /\ queueCount' = [queueCount EXCEPT ![i] = 0]
  /\ isSyncing' = [isSyncing EXCEPT ![i] = FALSE]
  /\ sync' = [sync EXCEPT ![i] = NoSync]
  /\ UNCHANGED <<call, faults, cache, isOnline, now, enq, enqOrder, acked, idb, session,
                 tx>>

\* behind the loop: await updateQueueCount(), the toast, and in the finally
\* block setIsSyncing(false)
SyncFinish(i) ==
  /\ sync[i].pc = "count"
  /\ queueCount' = updateQueueCount(i)
  /\ isSyncing' = [isSyncing EXCEPT ![i] = FALSE]
  /\ sync' = [j \in Instances |->
       IF j = i THEN NoSync
       ELSE IF isSyncing[j] /\ sync[i].failCount > 0
            THEN [sync[j] EXCEPT !.afterFail = TRUE]
            ELSE sync[j]]
  /\ UNCHANGED <<call, faults, log, cache, isOnline, now, enq, enqOrder, acked,
                 idb, session, tx>>

\* --------------------------------------------------- triggers of syncQueue
\* mutant: the effect runs at every signal, changed or not
Mut_SetOnline(b) ==
  /\ isOnline' = b
  /\ IF b
     THEN syncQueue({i \in Instances : queueCount[i] > 0})
     ELSE UNCHANGED <<isSyncing, sync>>
  /\ UNCHANGED <<call, faults, log, cache, now, queueCount, enq, enqOrder, acked,
                 idb, session, tx>>

\* The connectivity signal.  useEffect(..., [isOnline]) of every hook instance
\* runs when the value has changed, and calls syncQueue if
\* isOnline && queueCount > 0.
SetOnline(b) ==
  /\ isOnline' = b
  /\ IF b /\ ~isOnline
     THEN syncQueue({i \in Instances : queueCount[i] > 0})
     ELSE UNCHANGED <<isSyncing, sync>>
  /\ UNCHANGED <<call, faults, log, cache, now, queueCount, enq, enqOrder, acked,
                 idb, session, tx>>

\* SyncIndicator's button: rendered when isOnline and queueCount # 0,
\* disabled while isSyncing; onClick={syncQueue}
ManualSync ==
  /\ isOnline
  /\ queueCount["SyncIndicator"] # 0
  /\ ~isSyncing["SyncIndicator"]
  /\ syncQueue({"SyncIndicator"})
  /\ UNCHANGED <<call, faults, log, cache, isOnline, now, queueCount, enq, enqOrder, acked,
                 idb, session, tx>>

\* ---------------------------------------------------------------- enqueue
\* leads a component can show: fetched rows and the cached ones
Shown == {ServerLead} \cup {l.id : l \in cache}

\* queueInsert / queueUpdate / queueDelete up to the end of addToQueue.  The
\* components call them only in the branch taken when isOnline is false.
\* data is what goes into the log, lead what the cache step will write.
Enqueue(i, type, id, data, lead) ==
  /\ ~isOnline
  /\ enq[i].pc = "idle"
  /\ Len(enqOrder) < MaxOps
  /\ id \in OpIds \ Range(enqOrder)
  /\ now' \in now..MaxClock
  /\ log' = addToQueue(log, id, type, "leads", data, now')
  /\ enqOrder' = Append(enqOrder, id)
  /\ enq' = [enq EXCEPT ![i] = [pc |-> "added", type |-> type, lead |-> lead,
                                id |-> id]]
  /\ sync' = [j \in Instances |->
       IF isSyncing[j] THEN [sync[j] EXCEPT !.during = @ \cup {id}] ELSE sync[j]]
  /\ UNCHANGED <<call, faults, cache, isOnline, queueCount, isSyncing, acked, idb, session,
                 tx>>

\* LeadFormDialog, new lead: tempId = `temp_${crypto.randomUUID()}`;
\* addToQueue gets data, the cache dataWithId
queueInsert(id, name) ==
  Enqueue("LeadFormDialog", "insert", id, FormData(name), Lead(TempId(id), name))

\* LeadFormDialog, existing lead: data is { ...dataToSubmit, id: lead.id }
queueUpdate(id, lead) == Enqueue("LeadFormDialog", "update", id, lead, lead)

\* LeadsTable: data is { id }
queueDelete(id, leadId) ==
  Enqueue("LeadsTable", "delete", id, [id |-> leadId], Lead(leadId, NoName))

\* behind addToQueue: updateCachedLead(dataWithId) / updateCachedLead(data) /
\* deleteCachedLead(id), then updateQueueCount() and the toast
EnqFinish(i) ==
  /\ enq[i].pc = "added"
  /\ cache' = IF enq[i].type = "delete"
              THEN deleteCachedLead(cache, enq[i].lead.id)
              ELSE updateCachedLead(cache, enq[i].lead)
  /\ queueCount' = updateQueueCount(i)
  /\ enq' = [enq EXCEPT ![i] = NoEnq]
  /\ UNCHANGED <<call, faults, log, isOnline, now, isSyncing, sync, enqOrder, acked,
                 idb, session, tx>>

\* ------------------------------------------------------------------- Next
Next ==
  \/ \E b \in BOOLEAN : SetOnline(b)
  \/ ManualSync
  \/ \E i \in Instances : SyncRemoteOk(i)
  \/ \E i \in Instances : SyncRemoteError(i)
  \/ \E i \in Instances : SyncFinish(i)
  \/ \E id \in OpIds, n \in Names : queueInsert(id, n)
  \/ \E id \in OpIds, l \in Shown, n \in Names : queueUpdate(id, Lead(l, n))
  \/ \E id \in OpIds, l \in Shown : queueDelete(id, l)
  \/ \E i \in Instances : EnqFinish(i)

Spec == Init /\ [][Next]_vars

\* ------------------------------------------------- the cache functions alone
\* The cache functions of the library, called one after the other on any
\* cache, with any operations pending in the log.

\* entities a cache can hold: rows as the server returns them (with a phone)
\* and entities as the form submits them, under the id of a server row or a
\* temporary id
CacheIds == {ServerLead, TempId(1)}
CacheNames == {"Acme", "Bolt"}
CacheEntities ==
  {Lead(id, n) : id \in CacheIds, n \in CacheNames} \cup
  {[id |-> id, name |-> "Acme", phone |-> "555"] : id \in CacheIds}

\* the contents a cache can have: at most one entity under each id
Caches ==
  {c \in SUBSET CacheEntities : \A l, m \in c : l.id = m.id => l = m}

\* the rows of one fetch: the ids of a table's rows differ
Fetched ==
  {<<>>} \cup {<<l>> : l \in CacheEntities} \cup
  {f \in {<<l, m>> : l \in CacheEntities, m \in CacheEntities} :
     f[1].id # f[2].id}

CacheInit ==
  /\ \E k \in {0, 1} :
       /\ log = {QueuedOp(id, "update", "leads", Lead(ServerLead, "Acme"), 0) :
                   id \in 1..k}
       /\ enqOrder = [j \in 1..k |-> j]
       /\ queueCount = [i \in Instances |-> k]
  /\ cache \in Caches
  /\ isOnline \in BOOLEAN
  /\ now = 1
  /\ isSyncing = [i \in Instances |-> FALSE]
  /\ sync = [i \in Instances |-> NoSync]
  /\ enq = [i \in Instances |-> NoEnq]
  /\ acked = {}
  /\ call = NoCall
  /\ faults = <<>>
  /\ idb = NoDb
  /\ session = FirstSession
  /\ tx = NoTx

CallUpdateCachedLead(lead) ==
  /\ cache' = updateCachedLead(cache, lead)
  /\ call' = [fn |-> "updateCachedLead", arg |-> lead, before |-> cache]
  /\ UNCHANGED <<log, isOnline, now, queueCount, isSyncing, sync, enq,
                 enqOrder, acked, faults, idb, session, tx>>

CallDeleteCachedLead(id) ==
  /\ cache' = deleteCachedLead(cache, id)
  /\ call' = [fn |-> "deleteCachedLead", arg |-> id, before |-> cache]
  /\ UNCHANGED <<log, isOnline, now, queueCount, isSyncing, sync, enq,
                 enqOrder, acked, faults, idb, session, tx>>

\* fetchLeads while online: cacheLeads(data)
CallCacheLeads(leads) ==
  /\ isOnline
  /\ cache' = cacheLeads(cache, leads)
  /\ call' = [fn |-> "cacheLeads", arg |-> leads, before |-> cache]
  /\ UNCHANGED <<log, isOnline, now, queueCount, isSyncing, sync, enq,
                 enqOrder, acked, faults, idb, session, tx>>

CacheNext ==
  \/ \E lead \in CacheEntities : CallUpdateCachedLead(lead)
  \/ \E id \in CacheIds : CallDeleteCachedLead(id)
  \/ \E leads \in Fetched : CallCacheLeads(leads)

CacheSpec == CacheInit /\ [][CacheNext]_vars

\* ------------------------------------------------- store writes that fail
\* A write to an object store can fail in two ways.  "rejected": the request
\* fails, request.onerror rejects the promise and the await throws.
\* "aborted": the request succeeds, request.onsuccess resolves the promise,
\* and the transaction then fails to commit (quota, I/O): nothing is stored,
\* and since addToQueue, updateCachedLead and deleteCachedLead listen to the
\* request only, the caller goes on.  threw: the error left the queue
\* function, to its caller.
Fault(i, store, kind, threw) ==
  [inst |-> i, store |-> store, kind |-> kind, threw |-> threw]

\* the queue functions a component calls: LeadFormDialog queueInsert and
\* queueUpdate, LeadsTable queueDelete
QueueCalls == {<<"LeadFormDialog", "insert">>, <<"LeadFormDialog", "update">>,
               <<"LeadsTable", "delete">>}

\* store.add of addToQueue is rejected: queueInsert / queueUpdate /
\* queueDelete throws at its first await
EnqueueRejected(i) ==
  /\ ~isOnline
  /\ enq[i].pc = "idle"
  /\ Len(faults) < MaxFaults
  /\ faults' = Append(faults, Fault(i, "log", "rejected", TRUE))
  /\ UNCHANGED <<log, cache, isOnline, now, queueCount, isSyncing, sync, enq,
                 enqOrder, acked, call, idb, session, tx>>

\* store.add of addToQueue succeeds and its transaction aborts: addToQueue
\* has resolved with the id, the queue function goes on to its cache write
EnqueueAborted(i, type, id, lead) ==
  /\ ~isOnline
  /\ enq[i].pc = "idle"
  /\ Len(faults) < MaxFaults
  /\ id \in OpIds \ Range(enqOrder)
  /\ enq' = [enq EXCEPT ![i] = [pc |-> "added", type |-> type, lead |-> lead,
                                id |-> id]]
  /\ faults' = Append(faults, Fault(i, "log", "aborted", FALSE))
  /\ UNCHANGED <<log, cache, isOnline, now, queueCount, isSyncing, sync,
                 enqOrder, acked, call, idb, session, tx>>

\* the cache write of a queue function is rejected: the function throws at
\* its second await; updateQueueCount and the toast are not reached
EnqCacheRejected(i) ==
  /\ enq[i].pc = "added"
  /\ Len(faults) < MaxFaults
  /\ enq' = [enq EXCEPT ![i] = NoEnq]
  /\ faults' = Append(faults, Fault(i, "cache", "rejected", TRUE))
  /\ UNCHANGED <<log, cache, isOnline, now, queueCount, isSyncing, sync,
                 enqOrder, acked, call, idb, session, tx>>

\* the cache write succeeds and its transaction aborts: the function goes on
\* to updateQueueCount and the toast
EnqCacheAborted(i) ==
  /\ enq[i].pc = "added"
  /\ Len(faults) < MaxFaults
  /\ queueCount' = updateQueueCount(i)
  /\ enq' = [enq EXCEPT ![i] = NoEnq]
  /\ faults' = Append(faults, Fault(i, "cache", "aborted", FALSE))
  /\ UNCHANGED <<log, cache, isOnline, now, isSyncing, sync, enqOrder, acked,
                 call, idb, session, tx>>

\* the components enqueue while offline, and store writes fail
FailInit == Init /\ ~isOnline

FailNext ==
  \/ \E id \in OpIds, n \in Names : queueInsert(id, n)
  \/ \E id \in OpIds, l \in Shown, n \in Names : queueUpdate(id, Lead(l, n))
  \/ \E id \in OpIds, l \in Shown : queueDelete(id, l)
  \/ \E i \in Instances : EnqFinish(i)
  \/ \E q \in QueueCalls : EnqueueRejected(q[1])
  \/ \E id \in OpIds, n \in Names :
       EnqueueAborted("LeadFormDialog", "insert", id, Lead(TempId(id), n))
  \/ \E id \in OpIds, l \in Shown, n \in Names :
       EnqueueAborted("LeadFormDialog", "update", id, Lead(l, n))
  \/ \E id \in OpIds, l \in Shown :
       EnqueueAborted("LeadsTable", "delete", id, Lead(l, NoName))
  \/ \E i \in Instances : EnqCacheRejected(i)
  \/ \E i \in Instances : EnqCacheAborted(i)

FailSpec == FailInit /\ [][FailNext]_vars

\* ------------------------------------------------------- the drain alone
\* The session finds in the log what earlier sessions (of this or another
\* version of the application) left there, operations on other tables
\* included, and drains it; nothing is enqueued.
Tables == {"leads", "contacts"}

PersistedOp(id, table) ==
  QueuedOp(id, "update", table, Lead(ServerLead, "Acme"), 0)

\* A request to stop the pass of instance i, made while one of its remote
\* calls is pending.  syncQueue takes no argument and reads no flag, and the
\* hook returns no function to cancel: the request changes nothing but the
\* record of itself.
RequestCancel(i) ==
  /\ sync[i].pc = "remote"
  /\ ~sync[i].cancel
  /\ sync' = [sync EXCEPT ![i].cancel = TRUE]
  /\ UNCHANGED <<log, cache, isOnline, now, queueCount, isSyncing, enq,
                 enqOrder, acked, call, faults, idb, session, tx>>

DrainInit ==
  /\ \E k \in 0..MaxOps :
       \E table \in [1..k -> Tables] :
         /\ log = {PersistedOp(id, table[id]) : id \in 1..k}
         /\ enqOrder = [j \in 1..k |-> j]
         /\ queueCount = [i \in Instances |-> k]
  /\ cache = {}
  /\ isOnline \in BOOLEAN
  /\ now = 1
  /\ isSyncing = [i \in Instances |-> FALSE]
  /\ sync = [i \in Instances |-> NoSync]
  /\ enq = [i \in Instances |-> NoEnq]
  /\ acked = {}
  /\ call = NoCall
  /\ faults = <<>>
  /\ idb = NoDb
  /\ session = FirstSession
  /\ tx = NoTx

DrainNext ==
  \/ \E b \in BOOLEAN : SetOnline(b)
  \/ ManualSync
  \/ \E i \in Instances : SyncRemoteOk(i)
  \/ \E i \in Instances : SyncRemoteError(i)
  \/ \E i \in Instances : SyncFinish(i)
  \/ \E i \in Instances : RequestCancel(i)

DrainSpec == DrainInit /\ [][DrainNext]_vars

\* ------------------------------------------------------------------ initDB
\* The callers of initDB: the mount effect of every hook instance, and after
\* it every function of the library the instance calls.

\* initDB up to its return: if (db) return db; otherwise indexedDB.open, a new
\* connection, and the promise is pending
InitDBCall(i) ==
  /\ idb.callers[i].pc # "opening"
  /\ idb' = IF idb.db # 0
            THEN [idb EXCEPT !.callers[i] =
                    [pc |-> "done", conn |-> 0, got |-> idb.db]]
            ELSE [idb EXCEPT !.opened = @ + 1,
                             !.callers[i] =
                    [pc |-> "opening", conn |-> idb.opened + 1, got |-> 0]]
  /\ UNCHANGED <<log, cache, isOnline, now, queueCount, isSyncing, sync, enq,
                 enqOrder, acked, call, faults, session, tx>>

\* request.onsuccess: db = request.result; resolve(db)
InitDBOpened(i) ==
  /\ idb.callers[i].pc = "opening"
  /\ idb' = [idb EXCEPT !.db = idb.callers[i].conn,
                        !.callers[i] =
               [pc |-> "done", conn |-> 0, got |-> idb.callers[i].conn]]
  /\ UNCHANGED <<log, cache, isOnline, now, queueCount, isSyncing, sync, enq,
                 enqOrder, acked, call, faults, session, tx>>

InitDBNext ==
  \/ \E i \in Instances : InitDBCall(i)
  \/ \E i \in Instances : InitDBOpened(i)

InitDBSpec == Init /\ [][InitDBNext]_vars

\* ------------------------------------------------- replay under fairness
\* The session starts offline; connectivity comes back and stays, and every
\* remote call succeeds.  What the runtime guarantees: a pending remote call
\* returns, and an async function that can go on does go on.  The signal and
\* the user's actions are under no obligation.  (SyncIndicator's button is
\* never enabled here: a pass whose calls all succeed leaves an empty log.)
LiveInit == Init /\ ~isOnline

LiveNext ==
  \/ SetOnline(TRUE)
  \/ \E i \in Instances : SyncRemoteOk(i)
  \/ \E i \in Instances : SyncFinish(i)
  \/ \E id \in OpIds, n \in Names : queueInsert(id, n)
  \/ \E id \in OpIds, l \in Shown, n \in Names : queueUpdate(id, Lead(l, n))
  \/ \E id \in OpIds, l \in Shown : queueDelete(id, l)
  \/ \E i \in Instances : EnqFinish(i)

LiveSpec ==
  /\ LiveInit
  /\ [][LiveNext]_vars
  /\ \A i \in Instances :
       /\ WF_vars(SyncRemoteOk(i))
       /\ WF_vars(SyncFinish(i))
       /\ WF_vars(EnqFinish(i))

\* ----------------------------------------------------------- page reload
\* mutant: the stores do not outlive the page
Mut_Restart(b) ==
  /\ session.n < MaxSessions
  /\ session' = [n |-> session.n + 1,
                 lost |-> session.lost \cup
                   {sync[i].operations[sync[i].idx].id :
                      i \in {j \in Instances : sync[j].pc = "remote"}},
                 counted |-> Instances]
  /\ log' = {}
  /\ cache' = {}
  /\ isOnline' = b
  /\ isSyncing' = [i \in Instances |-> FALSE]
  /\ sync' = [i \in Instances |-> NoSync]
  /\ enq' = [i \in Instances |-> NoEnq]
  /\ queueCount' = [i \in Instances |-> 0]
  /\ idb' = NoDb
  /\ UNCHANGED <<now, enqOrder, acked, call, faults, tx>>

\* The page is closed and loaded again, at any point.  The object stores are
\* on disk; the module variable db and the React state of every hook instance
\* begin anew (useState(0), useState(false)), async functions in flight are
\* gone, and the answers to pending remote calls reach nobody.  As in Init,
\* the mount effects have run: queueCount is the count of the log.
Restart(b) ==
  /\ session.n < MaxSessions
  /\ session' = [n |-> session.n + 1,
                 lost |-> session.lost \cup
                   {sync[i].operations[sync[i].idx].id :
                      i \in {j \in Instances : sync[j].pc = "remote"}},
                 counted |-> Instances]
  /\ isOnline' = b
  /\ isSyncing' = [i \in Instances |-> FALSE]
  /\ sync' = [i \in Instances |-> NoSync]
  /\ enq' = [i \in Instances |-> NoEnq]
  /\ queueCount' = [i \in Instances |-> getQueueCount(log)]
  /\ idb' = NoDb
  /\ UNCHANGED <<log, cache, now, enqOrder, acked, call, faults, tx>>

\* In this specification connectivity is sampled at page load only (the
\* 'online'/'offline' events of a running page are covered by Spec), so a
\* pass starts from the manual trigger.
RestartNext ==
  \/ ManualSync
  \/ \E i \in Instances : SyncRemoteOk(i)
  \/ \E i \in Instances : SyncRemoteError(i)
  \/ \E i \in Instances : SyncFinish(i)
  \/ \E id \in OpIds, n \in Names : queueInsert(id, n)
  \/ \E id \in OpIds, l \in Shown, n \in Names : queueUpdate(id, Lead(l, n))
  \/ \E id \in OpIds, l \in Shown : queueDelete(id, l)
  \/ \E i \in Instances : EnqFinish(i)
  \/ \E b \in BOOLEAN : Restart(b)

RestartSpec == Init /\ [][RestartNext]_vars

\* ------------------------------------------- a pass and what can fail in it
\* The session finds operations on the leads table in the log and drains
\* them; nothing is enqueued.  Besides the remote call, the two store
\* accesses of the pass can fail: getQueuedOperations at its start and
\* removeFromQueue behind a remote call that succeeded.  What the runtime
\* guarantees: a pending remote call returns, and an async function that can
\* go on does go on.
PassInit ==
  /\ \E k \in 0..MaxOps :
       /\ log = {PersistedOp(id, "leads") : id \in 1..k}
       /\ enqOrder = [j \in 1..k |-> j]
       /\ queueCount = [i \in Instances |-> k]
  /\ cache = {}
  /\ isOnline \in BOOLEAN
  /\ now = 1
  /\ isSyncing = [i \in Instances |-> FALSE]
  /\ sync = [i \in Instances |-> NoSync]
  /\ enq = [i \in Instances |-> NoEnq]
  /\ acked = {}
  /\ call = NoCall
  /\ faults = <<>>
  /\ idb = NoDb
  /\ session = FirstSession
  /\ tx = NoTx

\* the remote call returns without error and the delete request of
\* removeFromQueue fails: request.onerror rejects, the await throws into the
\* catch of the loop, failCount++, next operation
SyncRemoveRejected(i) ==
  /\ sync[i].pc = "remote"
  /\ Len(faults) < MaxFaults
  /\ acked' = acked \cup {sync[i].operations[sync[i].idx].id}
  /\ sync' = [sync EXCEPT ![i] =
       Advance([sync[i] EXCEPT !.failCount = @ + 1,
                               !.outcome = Append(@, "unremoved")])]
  /\ faults' = Append(faults, Fault(i, "log", "rejected", FALSE))
  /\ UNCHANGED <<call, log, cache, isOnline, now, queueCount, isSyncing, enq,
                 enqOrder, idb, session, tx>>

\* the remote call returns without error, the delete request of
\* removeFromQueue succeeds and its transaction aborts: request.onsuccess has
\* resolved the promise, successCount++, next operation; nothing was deleted
SyncRemoveAborted(i) ==
  /\ sync[i].pc = "remote"
  /\ Len(faults) < MaxFaults
  /\ acked' = acked \cup {sync[i].operations[sync[i].idx].id}
  /\ sync' = [sync EXCEPT ![i] =
       Advance([sync[i] EXCEPT !.successCount = @ + 1,
                               !.outcome = Append(@, "ok")])]
  /\ faults' = Append(faults, Fault(i, "log", "aborted", FALSE))
  /\ UNCHANGED <<call, log, cache, isOnline, now, queueCount, isSyncing, enq,
                 enqOrder, idb, session, tx>>

\* SyncIndicator's button, and getQueuedOperations rejects: setIsSyncing(true)
\* is done, the await throws into the outer catch of syncQueue
ManualSyncReadRejected ==
  /\ isOnline
  /\ queueCount["SyncIndicator"] # 0
  /\ ~isSyncing["SyncIndicator"]
  /\ Len(faults) < MaxFaults
  /\ isSyncing' = [isSyncing EXCEPT !["SyncIndicator"] = TRUE]
  /\ sync' = [sync EXCEPT !["SyncIndicator"] = [NoSync EXCEPT !.pc = "caught"]]
  /\ faults' = Append(faults, Fault("SyncIndicator", "log", "unreadable", FALSE))
  /\ UNCHANGED <<call, log, cache, isOnline, now, queueCount, enq, enqOrder,
                 acked, idb, session, tx>>

\* mutant: the flag is reset at the end of the try block only
Mut_SyncCatch(i) ==
  /\ sync[i].pc = "caught"
  /\ sync' = [sync EXCEPT ![i] = NoSync]
  /\ UNCHANGED <<call, faults, log, cache, isOnline, now, queueCount, isSyncing,
                 enq, enqOrder, acked, idb, session, tx>>

\* the outer catch of syncQueue: the 'Sync Failed' toast, and in the finally
\* block setIsSyncing(false); updateQueueCount is not reached
SyncCatch(i) ==
  /\ sync[i].pc = "caught"
  /\ isSyncing' = [isSyncing EXCEPT ![i] = FALSE]
  /\ sync' = [sync EXCEPT ![i] = NoSync]
  /\ UNCHANGED <<call, faults, log, cache, isOnline, now, queueCount, enq,
                 enqOrder, acked, idb, session, tx>>

\* the remote call of instance i's pass returns, one way or the other
RemoteReturns(i) ==
  \/ SyncRemoteOk(i)
  \/ SyncRemoteError(i)
  \/ SyncRemoveRejected(i)
  \/ SyncRemoveAborted(i)

\* The signal is not lost again in this specification.
PassNext ==
  \/ SetOnline(TRUE)
  \/ ManualSync
  \/ ManualSyncReadRejected
  \/ \E i \in Instances : SyncRemoteOk(i)
  \/ \E i \in Instances : SyncRemoteError(i)
  \/ \E i \in Instances : SyncRemoveRejected(i)
  \/ \E i \in Instances : SyncRemoveAborted(i)
  \/ \E i \in Instances : SyncCatch(i)
  \/ \E i \in Instances : SyncFinish(i)

PassSpec ==
  /\ PassInit
  /\ [][PassNext]_vars
  /\ \A i \in Instances :
       /\ WF_vars(RemoteReturns(i))
       /\ WF_vars(SyncCatch(i))
       /\ WF_vars(SyncFinish(i))

\* ------------------------------------------------ a pass and a lost signal
\* The signal comes and goes while passes are in flight; the store accesses
\* do not fail.  lostAt of a pass is the set of loop positions it was at
\* when the signal went from online to offline.

\* mutant: the passes in flight give up when the signal is lost
Mut_ConnectivityLost ==
  /\ isOnline
  /\ isOnline' = FALSE
  /\ sync' = [i \in Instances |->
       IF isSyncing[i]
       THEN [sync[i] EXCEPT !.lostAt = @ \cup {sync[i].idx},
                            !.pc = "count", !.req = NoReq]
       ELSE sync[i]]
  /\ UNCHANGED <<call, faults, log, cache, now, queueCount, isSyncing, enq,
                 enqOrder, acked, idb, session, tx>>

\* the 'offline' event while the page runs: the connectivity effect of every
\* instance runs and does nothing (isOnline is false); the passes in flight
\* are not told
ConnectivityLost ==
  /\ isOnline
  /\ isOnline' = FALSE
  /\ sync' = [i \in Instances |->
       IF isSyncing[i] THEN [sync[i] EXCEPT !.lostAt = @ \cup {sync[i].idx}]
       ELSE sync[i]]
  /\ UNCHANGED <<call, faults, log, cache, now, queueCount, isSyncing, enq,
                 enqOrder, acked, idb, session, tx>>

DropNext ==
  \/ SetOnline(TRUE)
  \/ ConnectivityLost
  \/ ManualSync
  \/ \E i \in Instances : SyncRemoteOk(i)
  \/ \E i \in Instances : SyncRemoteError(i)
  \/ \E i \in Instances : SyncFinish(i)

DropSpec == PassInit /\ [][DropNext]_vars

\* ---------------------------------------------------------------- mount
\* The page load step by step.  Every hook instance starts with
\* useState(0) and useState(false); at its first commit both effects run:
\* the mount effect calls initDB, the connectivity effect looks at isOnline
\* and queueCount; when initDB has resolved, updateQueueCount sets
\* queueCount.  The log holds what an earlier session left there.
MountInit ==
  /\ \E k \in 0..MaxOps :
       /\ log = {PersistedOp(id, "leads") : id \in 1..k}
       /\ enqOrder = [j \in 1..k |-> j]
  /\ queueCount = [i \in Instances |-> 0]
  /\ cache = {}
  /\ isOnline \in BOOLEAN
  /\ now = 1
  /\ isSyncing = [i \in Instances |-> FALSE]
  /\ sync = [i \in Instances |-> NoSync]
  /\ enq = [i \in Instances |-> NoEnq]
  /\ acked = {}
  /\ call = NoCall
  /\ faults = <<>>
  /\ idb = NoDb
  /\ session = [FirstSession EXCEPT !.counted = {}]
  /\ tx = NoTx

\* the first commit of instance i: initDB() is called, and the connectivity
\* effect calls syncQueue if isOnline && queueCount > 0
Mount(i) ==
  /\ idb.callers[i].pc = "idle"
  /\ i \notin session.counted
  /\ idb' = IF idb.db # 0
            THEN [idb EXCEPT !.callers[i] =
                    [pc |-> "done", conn |-> 0, got |-> idb.db]]
            ELSE [idb EXCEPT !.opened = @ + 1,
                             !.callers[i] =
                    [pc |-> "opening", conn |-> idb.opened + 1, got |-> 0]]
  /\ IF isOnline /\ queueCount[i] > 0
     THEN syncQueue({i})
     ELSE UNCHANGED <<isSyncing, sync>>
  /\ UNCHANGED <<log, cache, isOnline, now, queueCount, enq, enqOrder, acked,
                 call, faults, session, tx>>

\* mutant: the connectivity effect depends on queueCount as well, and runs
\* again when the mount effect has set it
Mut_MountCounted(i) ==
  /\ idb.callers[i].pc = "done"
  /\ i \notin session.counted
  /\ queueCount' = updateQueueCount(i)
  /\ session' = [session EXCEPT !.counted = @ \cup {i}]
  /\ IF isOnline /\ getQueueCount(log) > 0
     THEN syncQueue({i})
     ELSE UNCHANGED <<isSyncing, sync>>
  /\ UNCHANGED <<log, cache, isOnline, now, enq, enqOrder, acked, call, faults,
                 idb, tx>>

\* initDB().then(() => updateQueueCount()): setQueueCount(count); the
\* connectivity effect depends on [isOnline] and does not run
MountCounted(i) ==
  /\ idb.callers[i].pc = "done"
  /\ i \notin session.counted
  /\ queueCount' = updateQueueCount(i)
  /\ session' = [session EXCEPT !.counted = @ \cup {i}]
  /\ UNCHANGED <<log, cache, isOnline, now, isSyncing, sync, enq, enqOrder,
                 acked, call, faults, idb, tx>>

MountNext ==
  \/ \E i \in Instances : Mount(i)
  \/ \E i \in Instances : InitDBOpened(i)
  \/ \E i \in Instances : MountCounted(i)
  \/ \E b \in BOOLEAN : SetOnline(b)
  \/ ManualSync
  \/ \E i \in Instances : SyncRemoteOk(i)
  \/ \E i \in Instances : SyncRemoteError(i)
  \/ \E i \in Instances : SyncFinish(i)

MountSpec == MountInit /\ [][MountNext]_vars

\* ------------------------------------------ the transaction of cacheLeads
\* cacheLeads on any cache, request by request.  The readwrite transaction
\* gets store.clear() and one store.add per row placed on it at once; the
\* requests run later, in order; when none is left the transaction
\* completes.  An add under a key that is in the store fails: the error
\* bubbles to transaction.onerror, which rejects, and the transaction is
\* aborted and its writes undone.  A page closed in the middle aborts the
\* transaction as well.  A readonly transaction on the store starts when no
\* readwrite transaction on it is running.
\* tx: pc "none" or "active"; rows, the rows of the call; start, the store
\* when the transaction began; todo, the requests not yet run; result of
\* the call, "pending", "resolved", "rejected" or "interrupted"; read, what
\* the last getCachedLeads returned and the committed content of the store
\* at that moment.

\* the rows of one fetch, every one with an id; two of them can have the
\* same id
Rows ==
  {<<>>} \cup {<<l>> : l \in CacheEntities} \cup
  {<<l, m>> : l \in CacheEntities, m \in CacheEntities}

ClearRequest == [op |-> "clear"]
AddRequest(lead) == [op |-> "add", value |-> lead]

\* what a transaction that starts now finds in the store
Committed == IF tx.pc = "active" THEN tx.start ELSE cache

TxInit ==
  /\ log = {}
  /\ enqOrder = <<>>
  /\ queueCount = [i \in Instances |-> 0]
  /\ cache \in Caches
  /\ isOnline \in BOOLEAN
  /\ now = 1
  /\ isSyncing = [i \in Instances |-> FALSE]
  /\ sync = [i \in Instances |-> NoSync]
  /\ enq = [i \in Instances |-> NoEnq]
  /\ acked = {}
  /\ call = NoCall
  /\ faults = <<>>
  /\ idb = NoDb
  /\ session = FirstSession
  /\ tx = NoTx

\* fetchLeads while online: cacheLeads(data) up to the return of the
\* promise: the transaction is created, clear and the adds are placed
CacheLeadsBegin(leads) ==
  /\ isOnline
  /\ tx.pc = "none"
  /\ tx' = [tx EXCEPT !.pc = "active", !.rows = leads, !.start = cache,
                      !.todo = <<ClearRequest>> \o
                               [k \in 1..Len(leads) |-> AddRequest(leads[k])],
                      !.result = "pending"]
  /\ UNCHANGED <<log, cache, isOnline, now, queueCount, isSyncing, sync, enq,
                 enqOrder, acked, call, faults, idb, session>>

\* mutant: a failed add ends the transaction and leaves in the store what
\* the requests before it have done
Mut_TxRequest ==
  /\ tx.pc = "active"
  /\ tx.todo # <<>>
  /\ LET r == Head(tx.todo)
     IN IF r.op = "clear"
        THEN /\ cache' = {}
             /\ tx' = [tx EXCEPT !.todo = Tail(@)]
        ELSE IF \E l \in cache : l.id = r.value.id
             THEN /\ cache' = cache
                  /\ tx' = [tx EXCEPT !.pc = "none", !.todo = <<>>,
                                      !.result = "rejected"]
             ELSE /\ cache' = cache \cup {r.value}
                  /\ tx' = [tx EXCEPT !.todo = Tail(@)]
  /\ UNCHANGED <<log, isOnline, now, queueCount, isSyncing, sync, enq,
                 enqOrder, acked, call, faults, idb, session>>

\* the next request of the transaction runs: store.clear(), or
\* store.add(lead), which fails on a key that is in the store;
\* transaction.onerror = () => reject(transaction.error), and the abort
TxRequest ==
  /\ tx.pc = "active"
  /\ tx.todo # <<>>
  /\ LET r == Head(tx.todo)
     IN IF r.op = "clear"
        THEN /\ cache' = {}
             /\ tx' = [tx EXCEPT !.todo = Tail(@)]
        ELSE IF \E l \in cache : l.id = r.value.id
             THEN /\ cache' = tx.start
                  /\ tx' = [tx EXCEPT !.pc = "none", !.todo = <<>>,
                                      !.result = "rejected"]
             ELSE /\ cache' = cache \cup {r.value}
                  /\ tx' = [tx EXCEPT !.todo = Tail(@)]
  /\ UNCHANGED <<log, isOnline, now, queueCount, isSyncing, sync, enq,
                 enqOrder, acked, call, faults, idb, session>>

\* transaction.oncomplete = () => resolve()
TxComplete ==
  /\ tx.pc = "active"
  /\ tx.todo = <<>>
  /\ tx' = [tx EXCEPT !.pc = "none", !.result = "resolved"]
  /\ UNCHANGED <<log, cache, isOnline, now, queueCount, isSyncing, sync, enq,
                 enqOrder, acked, call, faults, idb, session>>

\* the page is closed while the transaction is active: it is aborted
TxInterrupted ==
  /\ tx.pc = "active"
  /\ cache' = tx.start
  /\ tx' = [tx EXCEPT !.pc = "none", !.todo = <<>>, !.result = "interrupted"]
  /\ UNCHANGED <<log, isOnline, now, queueCount, isSyncing, sync, enq,
                 enqOrder, acked, call, faults, idb, session>>

\* fetchLeads offline, or after an error: getCachedLeads(), a readonly
\* transaction with store.getAll()
CallGetCachedLeads ==
  /\ tx.pc # "active"
  /\ tx' = [tx EXCEPT !.read = [seen |-> getCachedLeads(cache),
                                committed |-> Committed]]
  /\ UNCHANGED <<log, cache, isOnline, now, queueCount, isSyncing, sync, enq,
                 enqOrder, acked, call, faults, idb, session>>

TxNext ==
  \/ \E leads \in Rows : CacheLeadsBegin(leads)
  \/ TxRequest
  \/ TxComplete
  \/ TxInterrupted
  \/ CallGetCachedLeads

TxSpec == TxInit /\ [][TxNext]_vars

\* ================================================================ claims
\* the ids of the operations a pass read
Snapshot(i) == {sync[i].operations[k].id : k \in 1..Len(sync[i].operations)}

\* the loop of instance i's pass is over
LoopOver(i) == sync[i].pc = "count"

\* every remote call of instance i's pass returned without error
AllOk(i) == \A k \in 1..Len(sync[i].outcome) : sync[i].outcome[k] = "ok"

\* the ids whose operation failed in instance i's pass
Failed(i) == {sync[i].operations[k].id :
                k \in {j \in 1..Len(sync[i].outcome) : sync[i].outcome[j] # "ok"}}

\* position of an id in the order of the enqueue calls
Pos(id) == CHOOSE k \in 1..Len(enqOrder) : enqOrder[k] = id

\* C1: after one complete drain that ran with no other pass in flight and
\* whose remote calls all succeeded, the remote service has received exactly
\* one call for each operation that was queued when the drain began, none of
\* them is left in the log, and the log holds nothing but what was enqueued
\* during the drain (it is empty when nothing was).
C1_DrainEmptiesLog ==
  \A i \in Instances :
    (LoopOver(i) /\ sync[i].alone /\ AllOk(i)) =>
      /\ Range(sync[i].sent) = sync[i].queued
      /\ Len(sync[i].sent) = Cardinality(sync[i].queued)
      /\ sync[i].successCount = Cardinality(sync[i].queued)
      /\ Ids(log) = sync[i].during
      /\ (sync[i].during = {} => log = {})

\* C1 witness: a lone pass over two queued operations has ended with every
\* call successful and nothing enqueued meanwhile
C1_Witness ==
  \E i \in Instances :
    /\ LoopOver(i) /\ sync[i].alone /\ AllOk(i)
    /\ Cardinality(sync[i].queued) = 2
    /\ sync[i].during = {}

\* C2: within one pass the remote calls are issued in the order in which the
\* operations were enqueued.
C2_SentInEnqueueOrder ==
  \A i \in Instances :
    \A a, b \in 1..Len(sync[i].sent) :
      a < b => Pos(sync[i].sent[a]) < Pos(sync[i].sent[b])

\* C3: at most one drain pass is in flight at any time.
C3_AtMostOnePass == Cardinality({i \in Instances : isSyncing[i]}) <= 1

\* syncQueue is called on instance i in this step: by the [isOnline] effect,
\* or by the button of SyncIndicator
SyncQueueCalled(i) ==
  \/ ~isOnline /\ isOnline' /\ queueCount[i] > 0
  \/ i = "SyncIndicator" /\ ManualSync

\* C4: a syncQueue call made while a drain pass is in flight starts no pass,
\* issues no remote call and leaves the log as it is.
C4_CallDuringPassIsNoOp ==
  [][\A i \in Instances :
       (SyncQueueCalled(i) /\ \E j \in Instances : isSyncing[j]) =>
         /\ sync'[i] = sync[i]
         /\ isSyncing'[i] = isSyncing[i]
         /\ log' = log]_vars

\* C5: every operation that has left the log has had a remote call that
\* returned without error.
C5_RemovedOnlyAfterAck == (Range(enqOrder) \ Ids(log)) \subseteq acked

\* C5 witness: an operation has left the log while another one, whose remote
\* call failed, is still in it
C5_Witness ==
  /\ Range(enqOrder) \ Ids(log) # {}
  /\ \E i \in Instances : Failed(i) \cap Ids(log) # {}

\* C6: when the loop of a pass is over, the operations of the pass that are
\* still in the log are exactly those whose remote call failed, successCount
\* is the number of operations that succeeded and failCount the number of
\* those that failed.
C6_PartialFailure ==
  \A i \in Instances :
    LoopOver(i) =>
      /\ Ids(log) \cap sync[i].queued = Failed(i)
      /\ sync[i].successCount = Cardinality(sync[i].queued \ Failed(i))
      /\ sync[i].failCount = Cardinality(Failed(i))

\* instance i's pass takes the step in which a remote call returns an error
ErrorStep(i) ==
  /\ sync[i].pc = "remote"
  /\ Len(sync'[i].outcome) = Len(sync[i].outcome) + 1
  /\ sync'[i].outcome[Len(sync'[i].outcome)] = "error"

\* C7: a remote failure does not abort the pass: the step that handles it
\* leaves the log (and the failed operation in it) as it is and goes on to the
\* next operation, so that when the loop is over every operation the pass
\* read has been handed to the remote service; and no operation is handed to
\* it twice in one pass.
C7_FailureDoesNotAbort ==
  /\ [](\A i \in Instances :
          /\ \A a, b \in 1..Len(sync[i].sent) :
               a # b => sync[i].sent[a] # sync[i].sent[b]
          /\ LoopOver(i) => Range(sync[i].sent) = Snapshot(i))
  /\ [][\A i \in Instances :
          ErrorStep(i) =>
            /\ log' = log
            /\ sync'[i].idx = sync[i].idx + 1 \/ sync'[i].pc = "count"
            /\ sync'[i].failCount = sync[i].failCount + 1]_vars

\* C7 witness: the first remote call of a pass failed, its operation is still
\* in the log, and the second operation is at the remote service
C7_Witness ==
  \E i \in Instances :
    /\ sync[i].pc = "remote" /\ sync[i].idx = 2
    /\ sync[i].outcome = <<"error">>
    /\ sync[i].operations[1] \in log

\* C8: while the remote call for an operation of a pass is pending, every
\* earlier operation of the pass has its outcome, and each earlier one that
\* succeeded is out of the log; the pass has handed over no later operation.
C8_Sequential ==
  \A i \in Instances :
    sync[i].pc = "remote" =>
      /\ Len(sync[i].outcome) = sync[i].idx - 1
      /\ Len(sync[i].sent) <= sync[i].idx
      /\ sync[i].sent[Len(sync[i].sent)] = sync[i].operations[sync[i].idx].id
      /\ \A k \in 1..(sync[i].idx - 1) :
           sync[i].outcome[k] = "ok" => sync[i].operations[k] \notin log

\* C8 witness: the second operation of a pass is at the remote service after
\* the first one succeeded
C8_Witness ==
  \E i \in Instances :
    /\ sync[i].pc = "remote" /\ sync[i].idx = 2
    /\ sync[i].outcome = <<"ok">>

\* C9: an operation enqueued while a pass is in flight is not handed to the
\* remote service by that pass, and it is in the log when the loop of that
\* pass is over.
C9_EnqueuedDuringPass ==
  \A i \in Instances :
    /\ sync[i].during \cap Range(sync[i].sent) = {}
    /\ LoopOver(i) => sync[i].during \subseteq Ids(log)

\* instance i's pass takes a step: it begins, goes on, or ends
PassStep(i) == sync'[i].pc # sync[i].pc \/ sync'[i].idx # sync[i].idx

\* C10: a pass that began with the log empty hands nothing to the remote
\* service and counts no success and no failure, and none of its steps changes
\* the log or the cache.
C10_EmptyDrain ==
  /\ [](\A i \in Instances :
          (isSyncing[i] /\ sync[i].queued = {}) =>
            /\ LoopOver(i)
            /\ sync[i].sent = <<>>
            /\ sync[i].successCount = 0 /\ sync[i].failCount = 0)
  /\ [][\A i \in Instances :
          (PassStep(i) /\ (IF isSyncing[i] THEN sync[i].queued = {} ELSE log = {}))
            => log' = log /\ cache' = cache]_vars

\* C10 witness: a pass that began with the log empty is in flight, and an
\* operation has been enqueued since
C10_Witness ==
  \E i \in Instances :
    isSyncing[i] /\ sync[i].queued = {} /\ sync[i].during # {} /\ cache # {}

\* instance i's queueInsert / queueUpdate / queueDelete call writes the log
\* in this step
EnqStep(i) == enq[i].pc = "idle" /\ enq'[i].pc = "added"

\* instance i's queueInsert / queueUpdate / queueDelete call ends in this step
EnqDone(i) == enq[i].pc = "added" /\ enq'[i].pc = "idle"

\* C11: an enqueue adds exactly one operation to the log, under an id that no
\* operation ever logged has had, so that the log grows by exactly one, and it
\* hands nothing to the remote service; no step changes a record that stays
\* in the log, its id included.
C11_EnqueueAddsOne ==
  [][/\ \A i \in Instances :
          EnqStep(i) =>
            /\ Len(enqOrder') = Len(enqOrder) + 1
            /\ LET id == enqOrder'[Len(enqOrder')]
               IN /\ id \notin Range(enqOrder) \cup Ids(log)
                  /\ \E op \in log' : op.id = id /\ log' = log \cup {op}
            /\ Cardinality(log') = Cardinality(log) + 1
            /\ \A j \in Instances :
                 /\ sync'[j].sent = sync[j].sent
                 /\ sync'[j].pc = sync[j].pc
                 /\ sync'[j].req = sync[j].req
     /\ \A op \in log' : op.id \in Ids(log) => op \in log
     /\ Cardinality(Ids(log')) = Cardinality(log')]_vars

\* C11 witness: two operations enqueued by different components in this
\* session are in the log
C11_Witness ==
  /\ Cardinality(log) = 2
  /\ \A op \in log : op.timestamp >= 1
  /\ \E a, b \in log : a.type = "insert" /\ b.type = "delete"

\* C12: while a queueInsert call is behind its log write, the operation it
\* logged carries in its payload the temporary id that the call returns and
\* that it writes to the cache.
C12_PayloadCarriesTempId ==
  \A i \in Instances :
    (enq[i].pc = "added" /\ enq[i].type = "insert") =>
      \A op \in log :
        op.id = enqOrder[Len(enqOrder)] =>
          "id" \in DOMAIN op.data /\ op.data.id = enq[i].lead.id

\* C13: the log write of an enqueue makes the log one operation longer; when
\* a queueInsert ends the cache holds exactly one entity under the temporary
\* id the call returns, when a queueUpdate ends the cache holds the given
\* entity and no other under its id, when a queueDelete ends the cache holds
\* no entity under the id; the ending call reads the depth of the log into
\* the queueCount of its hook instance.
C13_EnqueueEffects ==
  [][\A i \in Instances :
       /\ EnqStep(i) => Cardinality(log') = Cardinality(log) + 1
       /\ EnqDone(i) =>
            /\ queueCount'[i] = Cardinality(log')
            /\ enq[i].type = "insert" => enq[i].lead.id[1] = "temp"
            /\ enq[i].type \in {"insert", "update"} =>
                 {l \in cache' : l.id = enq[i].lead.id} = {enq[i].lead}
            /\ enq[i].type = "delete" =>
                 {l \in cache' : l.id = enq[i].lead.id} = {}]_vars

\* C13 witness: an entity has been put in the cache by a queueUpdate and
\* taken out of it by a queueDelete that has ended
C13_Witness ==
  /\ Len(enqOrder) = 2
  /\ \E a, b \in log :
       /\ a.type = "update" /\ b.type = "delete" /\ a.timestamp >= 1
       /\ a.data.id = b.data.id
       /\ a.id = enqOrder[1] /\ b.id = enqOrder[2]
  /\ \A i \in Instances : enq[i].pc = "idle"
  /\ cache = {}

\* C14: the call at the remote service is, for an insert, an insert of the
\* payload's fields without any id field; for an update, an update of the
\* payload's fields other than id on the row whose id is the payload's id;
\* for a delete, a delete of the row whose id is the payload's id, with no
\* other field.
C14_DispatchByKind ==
  \A i \in Instances :
    sync[i].pc = "remote" =>
      LET op == sync[i].operations[sync[i].idx]
          r  == sync[i].req
      IN /\ r.method = op.type
         /\ op.type = "insert" =>
              /\ DOMAIN r = {"method", "values"}
              /\ "id" \notin DOMAIN r.values
              /\ \A f \in DOMAIN op.data \ {"id"} :
                   f \in DOMAIN r.values /\ r.values[f] = op.data[f]
         /\ op.type = "update" =>
              /\ DOMAIN r = {"method", "values", "eq"}
              /\ r.eq = op.data.id
              /\ DOMAIN r.values = DOMAIN op.data \ {"id"}
              /\ \A f \in DOMAIN r.values : r.values[f] = op.data[f]
         /\ op.type = "delete" =>
              /\ DOMAIN r = {"method", "eq"}
              /\ r.eq = op.data.id

\* C14 witness: a pass has sent an insert and has a delete at the remote
\* service
C14_Witness ==
  \E i \in Instances :
    /\ sync[i].pc = "remote" /\ sync[i].idx = 2
    /\ sync[i].operations[1].type = "insert"
    /\ sync[i].operations[2].type = "delete"

\* C15: at every change of the connectivity signal from offline to online
\* with operations in the log, syncQueue is called.
C15_OnlineTransitionDrains ==
  [][(~isOnline /\ isOnline' /\ log # {}) =>
       \E i \in Instances : SyncQueueCalled(i)]_vars

\* a pass of instance i begins in this step
PassStarts(i) == ~isSyncing[i] /\ isSyncing'[i]

\* C16: a step in which the signal goes from online to offline, or stays as
\* it is, starts no pass by the connectivity trigger: a pass that begins in
\* such a step is the one of SyncIndicator's button, pressed while online;
\* every other pass begins in a step from offline to online.
C16_OnlyOfflineToOnline ==
  [][\A i \in Instances :
       PassStarts(i) =>
         \/ ~isOnline /\ isOnline'
         \/ /\ isOnline /\ isOnline'
            /\ i = "SyncIndicator" /\ queueCount[i] # 0
            /\ \A j \in Instances \ {i} : ~PassStarts(j)]_vars

\* C16 witness: the signal has gone offline while a pass started by the
\* trigger is in flight, and an instance with a positive queueCount has
\* started none
C16_Witness ==
  /\ ~isOnline
  /\ isSyncing["LeadsTable"]
  /\ queueCount["LeadFormDialog"] > 0 /\ ~isSyncing["LeadFormDialog"]

\* C17: when no enqueue and no pass is in flight, the queueCount of every hook
\* instance is the number of operations in the log.
C17_QueueCountReflectsLog ==
  (\A i \in Instances : enq[i].pc = "idle" /\ sync[i].pc = "idle") =>
    \A i \in Instances : queueCount[i] = Cardinality(log)

\* C18: no step of a pass writes the cache, and none changes a record that
\* stays in the log or adds one: after a successful replay of an insert the
\* cache holds the entity under its temporary id as before.
C18_DrainWritesNoCache ==
  [][(\E i \in Instances : PassStep(i)) =>
       /\ cache' = cache
       /\ log' \subseteq log]_vars

\* C18 witness: the loop of a pass is over, the insert it replayed with
\* success has its entity in the cache under the temporary id, and another
\* operation is still in the log
C18_Witness ==
  /\ \E i \in Instances : LoopOver(i)
  /\ \E l \in cache : l.id[1] = "temp" /\ l.id[2] \in acked
  /\ log # {}

\* C19: what getCachedLeads returns after updateCachedLead(e) contains e and
\* no other entity with e's id (the entity that was there is replaced whole),
\* what it returns after deleteCachedLead(id) contains no entity with that
\* id, and in both cases the entities with other ids are those that were
\* there before; no id occurs twice in what it returns.
C19_CacheSingleWrites ==
  LET read == getCachedLeads(cache)
  IN /\ Len(read) = Cardinality({l.id : l \in Range(read)})
     /\ call.fn = "updateCachedLead" =>
          /\ call.arg \in Range(read)
          /\ {l \in Range(read) : l.id = call.arg.id} = {call.arg}
          /\ {l \in Range(read) : l.id # call.arg.id} =
               {l \in call.before : l.id # call.arg.id}
     /\ call.fn = "deleteCachedLead" =>
          /\ {l \in Range(read) : l.id = call.arg} = {}
          /\ {l \in Range(read) : l.id # call.arg} =
               {l \in call.before : l.id # call.arg}

\* C19 witness: updateCachedLead has written an entity without a phone over
\* one with a phone while the cache held an entity under another id
C19_Witness ==
  /\ call.fn = "updateCachedLead"
  /\ \E old \in call.before :
       /\ old.id = call.arg.id
       /\ "phone" \in DOMAIN old /\ "phone" \notin DOMAIN call.arg
  /\ \E l \in call.before : l.id # call.arg.id

\* C20: what getCachedLeads returns after cacheLeads(entities) is exactly the
\* given entities, whatever the cache held and whatever is pending in the
\* log; cacheLeads leaves the log as it is.
C20_CacheLeadsReplacesAll ==
  /\ [](call.fn = "cacheLeads" =>
          /\ Range(getCachedLeads(cache)) = Range(call.arg)
          /\ Len(getCachedLeads(cache)) = Len(call.arg))
  /\ [][(call'.fn = "cacheLeads" /\ (call' # call \/ cache' # cache)) =>
          log' = log]_vars

\* C20 witness: cacheLeads has replaced a cache that held an entity under a
\* temporary id by fetched rows without it, with an operation pending in the
\* log
C20_Witness ==
  /\ call.fn = "cacheLeads"
  /\ call.arg # <<>>
  /\ \E l \in call.before :
       l.id[1] = "temp" /\ \A k \in 1..Len(call.arg) : call.arg[k].id # l.id
  /\ \A l \in cache : l.id[1] # "temp"
  /\ log # {}

\* instance i's pass hands an operation to the remote service in this step
Issues(i) == Len(sync'[i].sent) > Len(sync[i].sent)

\* syncQueue is called in this step: the signal goes from offline to online,
\* or SyncIndicator's button is pressed
TriggerStep == (~isOnline /\ isOnline') \/ ManualSync

\* C21: a remote call is issued by a pass that begins only in a step that
\* calls syncQueue, and by a pass in flight only as long as no other pass has
\* ended with failed operations since syncQueue was last called.
C21_NoAutomaticRetry ==
  [][\A i \in Instances :
       Issues(i) =>
         /\ sync[i].pc = "idle" => TriggerStep
         /\ ~sync[i].afterFail]_vars

\* a store write fails in this step
FaultStep == Len(faults') = Len(faults) + 1

\* the write that fails in this step
NewFault == faults'[Len(faults')]

\* C22: when the log write of an enqueue fails, the error reaches the caller
\* of queueInsert / queueUpdate / queueDelete, the call is over, and the log
\* is as it was.
C22_LogWriteFailurePropagates ==
  [][(FaultStep /\ NewFault.store = "log") =>
       /\ NewFault.threw
       /\ enq'[NewFault.inst].pc = "idle"
       /\ log' = log]_vars

\* C30: a queue function writes the log first and the cache second, and
\* neither write undoes the other: the step that writes the log leaves the
\* cache as it is and the step that writes the cache leaves the log as it
\* is; when the log write fails the call is over and the cache is not
\* written; when the cache write fails the operation stays in the log, the
\* error reaches the caller, and the queueCount of the instance is left as
\* it was.
C30_LogThenCache ==
  [][/\ \A i \in Instances :
          /\ EnqStep(i) /\ ~FaultStep => cache' = cache
          /\ EnqDone(i) => log' = log
     /\ (FaultStep /\ NewFault.store = "log") =>
          /\ cache' = cache
          /\ enq'[NewFault.inst].pc = "idle"
     /\ (FaultStep /\ NewFault.store = "cache") =>
          /\ enq[NewFault.inst].id \in Ids(log')
          /\ NewFault.threw
          /\ queueCount'[NewFault.inst] = queueCount[NewFault.inst]]_vars

\* the operations of instance i's pass on a table other than 'leads'
Unsupported(i) ==
  {sync[i].operations[k] :
     k \in {j \in 1..Len(sync[i].operations) :
              sync[i].operations[j].table # "leads"}}

\* C23: an operation on a table other than 'leads' is never handed to the
\* remote service; every pass that reads it counts it as failed, as an
\* unsupported operation; and no step takes it out of the log.
C23_UnsupportedTable ==
  /\ [](\A i \in Instances :
          /\ Ids(Unsupported(i)) \cap Range(sync[i].sent) = {}
          /\ sync[i].pc = "remote" =>
               sync[i].operations[sync[i].idx].table = "leads"
          /\ \A k \in 1..Len(sync[i].outcome) :
               sync[i].operations[k].table # "leads" <=>
                 sync[i].outcome[k] = "unsupported"
          /\ LoopOver(i) =>
               /\ sync[i].failCount >= Cardinality(Unsupported(i))
               /\ Len(sync[i].outcome) = Len(sync[i].operations)
               /\ Unsupported(i) \subseteq log)
  /\ [][\A op \in log : op.table # "leads" => op \in log']_vars

\* C23 witness: the loop of a pass over an operation on 'contacts' and one on
\* 'leads' is over, the first counted as failed, the second sent and
\* acknowledged
C23_Witness ==
  \E i \in Instances :
    /\ LoopOver(i)
    /\ Len(sync[i].operations) = 2
    /\ sync[i].operations[1].table = "contacts"
    /\ sync[i].outcome = <<"unsupported", "ok">>
    /\ sync[i].failCount = 1 /\ sync[i].successCount = 1
    /\ sync[i].operations[1] \in log

\* C28: once a pass has been asked to stop while a remote call of it is
\* pending, the call runs to its end and the pass hands no further operation
\* to the remote service.
C28_CancelStopsPass ==
  [][\A i \in Instances :
       (sync[i].pc = "remote" /\ sync[i].cancel) => ~Issues(i)]_vars

\* C24: whatever the interleaving of initDB calls, indexedDB.open is called
\* at most once, and all callers whose call has returned hold the same
\* connection.
C24_InitDBOnce ==
  /\ idb.opened <= 1
  /\ \A i, j \in Instances :
       (idb.callers[i].pc = "done" /\ idb.callers[j].pc = "done") =>
         idb.callers[i].got = idb.callers[j].got

\* C25: once connectivity has come back, with the remote service succeeding
\* on every call and the signal staying online, the log eventually is empty:
\* every operation that was in it has been sent and removed.
C25_ReplayLiveness == isOnline ~> (log = {})

\* the page is loaded again in this step
RestartStep == session'.n = session.n + 1

\* C26: the log holds exactly the operations that were enqueued and have not
\* been removed after a successful remote call, whatever page loads lie in
\* between, so an operation whose remote call was pending when the page was
\* closed is queued until a later call for it succeeds; a page load leaves
\* log and cache as they are and starts with no pass and no enqueue in
\* flight, isSyncing false, queueCount read from the log, and no connection.
C26_SurvivesRestart ==
  /\ [](/\ Ids(log) = Range(enqOrder) \ acked
        /\ session.lost \subseteq Ids(log) \cup acked)
  /\ [][RestartStep =>
          /\ log' = log /\ cache' = cache
          /\ \A i \in Instances :
               /\ ~isSyncing'[i]
               /\ sync'[i] = NoSync
               /\ enq'[i] = NoEnq
               /\ queueCount'[i] = Cardinality(log)
          /\ idb' = NoDb]_vars

\* C26 witness: the page was closed while the remote call for an operation
\* was pending, after another operation had been sent and removed; in the new
\* session the operation is in the log and the cache holds what the first
\* session put there
C26_Witness ==
  /\ session.n > 1
  /\ session.lost \cap Ids(log) # {}
  /\ acked # {}
  /\ cache # {}
  /\ \A i \in Instances : ~isSyncing[i]

\* a queue function stores its operation in this step
EnqueueStep == Len(enqOrder') > Len(enqOrder)

\* the operation pass i has handed to the remote service
Current(i) == sync[i].operations[sync[i].idx]

\* C27: operations are never merged or dropped.  Every enqueue adds one
\* record to the log and leaves the others as they are, also when the new
\* operation is an update or a delete of a lead that a queued insert created;
\* a record leaves the log only after its own remote call succeeded; a pass
\* issues one remote call per operation it read, of the operation's own type,
\* and an update or delete is keyed by the id in its payload as stored (the
\* temporary id is not resolved).
C27_NeverMergedOrDropped ==
  /\ [](/\ \A id \in Range(enqOrder) \ acked :
             Cardinality({op \in log : op.id = id}) = 1
        /\ \A i \in Instances :
             sync[i].pc = "remote" =>
               /\ sync[i].req.method = Current(i).type
               /\ Current(i).type \in {"update", "delete"} =>
                    sync[i].req.eq = Current(i).data.id
               /\ sync[i].sent =
                    [k \in 1..sync[i].idx |-> sync[i].operations[k].id])
  /\ [][EnqueueStep =>
          /\ log \subseteq log'
          /\ Cardinality(log') = Cardinality(log) + 1]_vars

\* C27 witness: a pass read the insert of a new lead and then an update or
\* delete of that lead; the insert has had its call, both records are still
\* in the log, and the second call is out, keyed by the temporary id
C27_Witness ==
  \E i \in Instances :
    /\ sync[i].pc = "remote"
    /\ sync[i].idx = 2
    /\ sync[i].operations[1].type = "insert"
    /\ sync[i].operations[2].type \in {"update", "delete"}
    /\ sync[i].operations[2].data.id = TempId(sync[i].operations[1].id)
    /\ sync[i].req.eq = TempId(sync[i].operations[1].id)
    /\ {sync[i].operations[1], sync[i].operations[2]} \subseteq log

\* C29: at most once.  A pass never issues a remote call for an operation
\* for which a remote call has already succeeded.
C29_AtMostOnce ==
  [][\A i \in Instances :
       Issues(i) => sync'[i].sent[Len(sync'[i].sent)] \notin acked']_vars

\* C31: in every pass, once the loop is over, successCount + failCount is the
\* number of operations read; an operation counted as succeeded had a remote
\* call that succeeded and is no longer in the log; and a step in which the
\* removal behind a successful remote call fails counts the operation as
\* failed and leaves it in the log.
C31_CountsAddUp ==
  /\ [](\A i \in Instances :
          /\ LoopOver(i) =>
               sync[i].successCount + sync[i].failCount = Len(sync[i].operations)
          /\ \A k \in 1..Len(sync[i].outcome) :
               sync[i].outcome[k] = "ok" =>
                 /\ sync[i].operations[k].id \in acked
                 /\ sync[i].operations[k].id \notin Ids(log))
  /\ [][\A i \in Instances :
          (/\ Len(sync'[i].outcome) > Len(sync[i].outcome)
           /\ sync'[i].outcome[Len(sync[i].outcome) + 1] = "unremoved")
          => /\ log' = log
             /\ sync'[i].failCount = sync[i].failCount + 1
             /\ sync'[i].successCount = sync[i].successCount]_vars

\* C32: isSyncing of a hook instance is true exactly while a pass of that
\* instance is in flight, and it always becomes false again: after the loop,
\* whatever the remote calls returned, and after getQueuedOperations threw.
C32_GuardReleased ==
  /\ [](\A i \in Instances : isSyncing[i] <=> sync[i].pc # "idle")
  /\ \A i \in Instances : isSyncing[i] ~> ~isSyncing[i]

\* C32 witness: SyncIndicator's pass could not read the log, and is over
C32_Witness ==
  /\ \E k \in 1..Len(faults) :
       faults[k].kind = "unreadable" /\ faults[k].inst = "SyncIndicator"
  /\ ~isSyncing["SyncIndicator"]
  /\ sync["SyncIndicator"] = NoSync

\* the signal goes from online to offline in this step
LostStep == isOnline /\ ~isOnline'

\* C35: a pass is not interrupted by the loss of the signal.  The step that
\* takes the signal away changes neither the log nor the flag, position and
\* counters of any pass; when the loop of a pass is over it has sent every
\* operation of its snapshot, in order, and failCount is the number of calls
\* that returned an error; and a call that returns an error leaves the log
\* as it is.
C35_NotInterrupted ==
  /\ [](\A i \in Instances :
          LoopOver(i) =>
            /\ sync[i].sent =
                 [k \in 1..Len(sync[i].operations) |-> sync[i].operations[k].id]
            /\ sync[i].failCount =
                 Cardinality({k \in 1..Len(sync[i].outcome) :
                                sync[i].outcome[k] = "error"}))
  /\ [][LostStep =>
          /\ log' = log
          /\ isSyncing' = isSyncing
          /\ \A i \in Instances :
               sync'[i] = [sync[i] EXCEPT !.lostAt = sync'[i].lostAt]]_vars
  /\ [][\A i \in Instances :
          ErrorStep(i) =>
            /\ log' = log
            /\ sync'[i].failCount = sync[i].failCount + 1]_vars

\* C35 witness: the signal was lost while the first call of a pass was
\* pending; the pass has sent the second operation all the same, that call
\* failed, and the operation is in the log and counted
C35_Witness ==
  \E i \in Instances :
    /\ ~isOnline
    /\ LoopOver(i)
    /\ 1 \in sync[i].lostAt
    /\ Len(sync[i].sent) = 2
    /\ sync[i].outcome[2] = "error"
    /\ sync[i].operations[2] \in log
    /\ sync[i].failCount >= 1

\* a pass of instance i begins in this step
PassBegins(i) == sync[i].pc = "idle" /\ sync'[i].pc # "idle"

\* C34: mounting starts no pass, with connectivity online and operations in
\* the log included.  A pass begins only in a step that takes the signal
\* from offline to online or presses SyncIndicator's button; the steps of
\* mounting leave the log and the passes as they are; and the log changes
\* only while a pass is in flight.
C34_NoDrainOnMount ==
  /\ [][\A i \in Instances : PassBegins(i) => TriggerStep]_vars
  /\ [][(idb' # idb \/ session' # session) =>
          /\ log' = log
          /\ isSyncing' = isSyncing
          /\ sync' = sync]_vars
  /\ [][log' # log => \E i \in Instances : isSyncing[i]]_vars

\* C34 witness: the page was loaded online on a log with operations in it;
\* every instance is mounted and has its queueCount, positive; no pass is in
\* flight, and the log and the counts are as the earlier session left them
C34_Witness ==
  /\ isOnline
  /\ log # {}
  /\ acked = {}
  /\ session.counted = Instances
  /\ \A i \in Instances :
       /\ idb.callers[i].pc = "done"
       /\ queueCount[i] = Cardinality(log)
       /\ ~isSyncing[i]
       /\ sync[i] = NoSync

\* two rows of the call have the same id
HasDuplicate(leads) ==
  \E j, k \in 1..Len(leads) : j # k /\ leads[j].id = leads[k].id

\* C33: cacheLeads is all-or-nothing.  What getCachedLeads returns is the
\* content of the store as the last finished call left it, never a cleared
\* or half filled one; a call that has resolved has left exactly its rows in
\* the store; a call that has rejected, or was interrupted, has left the
\* store as it was before; and a call with two rows of the same id rejects.
C33_AllOrNothing ==
  /\ tx.read.seen = getCachedLeads(tx.read.committed)
  /\ tx.pc = "none" =>
       /\ tx.result = "resolved" =>
            cache = Range(tx.rows) /\ ~HasDuplicate(tx.rows)
       /\ tx.result \in {"rejected", "interrupted"} => cache = tx.start
       /\ HasDuplicate(tx.rows) => tx.result \in {"rejected", "interrupted"}

\* C33 witness: a call with two rows of the same id on a cache that was not
\* empty has rejected
C33_Witness ==
  /\ tx.pc = "none"
  /\ tx.result = "rejected"
  /\ Len(tx.rows) = 2
  /\ tx.rows[1].id = tx.rows[2].id
  /\ tx.start # {}
  /\ cache = tx.start

=============================================================================
